---- MODULE Spec2Model ----
(***************************************************************************)
(* Model of src/main.py: the CurrencyExchange client (four query methods,  *)
(* each one HTTP GET and one JSON field extraction) and the interactive    *)
(* main() shell that reads a menu selector, prompts for the arguments,     *)
(* calls one method and prints what it returned.                           *)
(*                                                                         *)
(* Python values are records of one shape, so that values of different     *)
(* Python types can be compared:                                           *)
(*   t = "str" | "int" | "float" | "dict" | "null"                         *)
(* A float is held as an integer number of hundredths (n = 123 is 1.23);   *)
(* a dict is the sequence of its items in insertion order.  Text typed at  *)
(* a prompt that the program parses is a sequence of one-character         *)
(* strings, so that int(), float() and str.split() are computed.           *)
(***************************************************************************)
EXTENDS Integers, Sequences, FiniteSets, TLC

VARIABLES
    mode,        \* "lib": methods are called on a client; "main": main() runs
    arg_token,   \* the token that was passed to CurrencyExchange.__init__
    self,        \* the client object: its attributes
    last,        \* record of the most recent method call
    first,       \* record of the first method call made on the client
    ncalls,      \* number of method calls made
    nsent,       \* number of HTTP requests handed to the transport
    pc,          \* position of main()
    user_input,  \* main(): the parsed menu selector
    answers,     \* main(): the texts read by the prompts after the menu
    trace,       \* main(): console and client events, in order
    fault        \* main(): where an exception left main(), "" if none

vars == <<mode, arg_token, self, last, first, ncalls, nsent, pc, user_input,
          answers, trace, fault>>

-----------------------------------------------------------------------------
(* Bounds and input alphabets *)

MaxCalls == 3

Tokens == {"KEY", "OTHER"}
Currencies == {"USD", "EUR"}
PairArgs == {<<"USD", "EUR">>, <<"EUR", "USD">>, <<"USD", "USD">>}
ExchangeArgs == {<<"USD", "EUR", 10000>>, <<"EUR", "USD", 10000>>,
                 <<"USD", "EUR", 9140>>}
HistoryArgs == {<<"USD", 2023, 5, 17>>, <<"EUR", 1999, 12, 1>>}
Statuses == {200, 404}

-----------------------------------------------------------------------------
(* Python values *)

Str(s) == [t |-> "str", n |-> 0, s |-> s, items |-> <<>>]
PyInt(n) == [t |-> "int", n |-> n, s |-> "", items |-> <<>>]
PyFloat(h) == [t |-> "float", n |-> h, s |-> "", items |-> <<>>]
Dict(items) == [t |-> "dict", n |-> 0, s |-> "", items |-> items]
None == [t |-> "null", n |-> 0, s |-> "", items |-> <<>>]
Item(k, v) == [k |-> k, v |-> v]

Return(v) == [kind |-> "return", value |-> v, exc |-> ""]
Raise(e) == [kind |-> "raise", value |-> None, exc |-> e]

Abs(n) == IF n < 0 THEN -n ELSE n

\* repr() of a float with at most two fractional digits: 100.0, 91.4, 1.23
float_repr(h) ==
    LET a == Abs(h)
        frac == a % 100
        digits == IF frac % 10 = 0 THEN ToString(frac \div 10)
                  ELSE IF frac < 10 THEN "0" \o ToString(frac)
                  ELSE ToString(frac)
    IN (IF h < 0 THEN "-" ELSE "") \o ToString(a \div 100) \o "." \o digits

Indent(level) == IF level = 0 THEN "" ELSE IF level = 1 THEN "  " ELSE "    "

\* json.dumps(value, indent=2); level is the nesting depth of value
RECURSIVE dumps_at(_, _)
RECURSIVE dumps_items(_, _, _)
dumps_items(items, i, level) ==
    IF i > Len(items) THEN ""
    ELSE Indent(level) \o "\"" \o items[i].k \o "\": "
         \o dumps_at(items[i].v, level)
         \o (IF i < Len(items) THEN ",\n" ELSE "\n")
         \o dumps_items(items, i + 1, level)
dumps_at(value, level) ==
    CASE value.t = "str" -> "\"" \o value.s \o "\""
      [] value.t = "int" -> ToString(value.n)
      [] value.t = "float" -> float_repr(value.n)
      [] value.t = "null" -> "null"
      [] value.t = "dict" ->
            IF value.items = <<>> THEN "{}"
            ELSE "{\n" \o dumps_items(value.items, 1, level + 1)
                 \o Indent(level) \o "}"

json_dumps(value) == dumps_at(value, 0)

\* str(value), as print() and an f-string field apply it
py_str(value) ==
    CASE value.t = "str" -> value.s
      [] value.t = "int" -> ToString(value.n)
      [] value.t = "float" -> float_repr(value.n)
      [] value.t = "null" -> "None"
      [] value.t = "dict" -> "{...}"

\* value[key]
getitem(value, key) ==
    IF value.t # "dict" THEN Raise("TypeError")
    ELSE IF \E i \in 1..Len(value.items) : value.items[i].k = key
         THEN Return(value.items[CHOOSE i \in 1..Len(value.items) :
                                    value.items[i].k = key].v)
         ELSE Raise("KeyError")

-----------------------------------------------------------------------------
(* The transport and the HTTP response *)

RatesA == Dict(<<Item("EUR", PyFloat(90)), Item("USD", PyInt(1))>>)
RatesB == Dict(<<Item("USD", PyInt(1)), Item("GBP", PyFloat(79))>>)

Bodies ==
    { Dict(<<Item("result", Str("success")),
             Item("conversion_rates", RatesA),
             Item("conversion_rate", PyFloat(123)),
             Item("conversion_result", PyFloat(9140))>>),
      Dict(<<Item("conversion_result", PyFloat(10000)),
             Item("conversion_rate", PyFloat(90)),
             Item("conversion_rates", RatesB)>>),
      Dict(<<Item("result", Str("error")),
             Item("error-type", Str("unsupported-code"))>>) }

\* A response the transport delivered: its status and its body, which
\* is JSON text (held parsed) or some other text.
Delivered == [transport_ok : {TRUE}, status_code : Statuses,
              is_json : {TRUE}, body : Bodies]
             \cup [transport_ok : {TRUE}, status_code : Statuses,
                   is_json : {FALSE}, body : {None}]

\* The transport could not deliver a response (DNS, refused, timeout).
Undelivered == [transport_ok |-> FALSE, status_code |-> 0,
                is_json |-> FALSE, body |-> None]

Responses == Delivered \cup {Undelivered}

\* requests.get(url): one request handed to the transport, answered by resp
requests_get(url, resp) ==
    [sent |-> <<url>>, raised |-> ~resp.transport_ok, result |-> resp]

\* result.json()
result_json(result) ==
    IF result.is_json THEN Return(result.body) ELSE Raise("JSONDecodeError")

Effect(s, sent, reads, outcome) ==
    [self |-> s, sent |-> sent, reads |-> reads, outcome |-> outcome]

-----------------------------------------------------------------------------
(* class CurrencyExchange *)

\* module api: the configured base URL and token (api.py is not part of src/)
API_URL == "https://host/v6/"
TOKEN_KEY == "KEY"

__init__(token) == [token |-> token, url |-> API_URL]

\* get_ex_rates with the token attribute overwritten by the argument
get_ex_rates_keeps(s, currency, resp) ==
    LET g == requests_get(s.url \o s.token \o "/latest/" \o currency, resp)
        result == g.result
        kept == [s EXCEPT !.token = currency]
    IN  IF g.raised THEN Effect(kept, g.sent, 0, Raise("ConnectionError"))
        ELSE IF result.status_code = 200
        THEN LET j == result_json(result)
                 f == getitem(j.value, "conversion_rates")
             IN  IF j.kind = "raise" THEN Effect(kept, g.sent, 1, j)
                 ELSE IF f.kind = "raise" THEN Effect(kept, g.sent, 1, f)
                 ELSE Effect(kept, g.sent, 1,
                             Return(Str(json_dumps(f.value))))
        ELSE Effect(kept, g.sent, 0,
                    Return(Str("Request error with status code: "
                               \o ToString(result.status_code))))

get_ex_rates(s, currency, resp) ==
    LET g == requests_get(s.url \o s.token \o "/latest/" \o currency, resp)
        result == g.result
    IN  IF g.raised THEN Effect(s, g.sent, 0, Raise("ConnectionError"))
        ELSE IF result.status_code = 200
        THEN LET j == result_json(result)
                 f == getitem(j.value, "conversion_rates")
             IN  IF j.kind = "raise" THEN Effect(s, g.sent, 1, j)
                 ELSE IF f.kind = "raise" THEN Effect(s, g.sent, 1, f)
                 ELSE Effect(s, g.sent, 1, Return(Str(json_dumps(f.value))))
        ELSE Effect(s, g.sent, 0,
                    Return(Str("Request error with status code: "
                               \o ToString(result.status_code))))

\* get_ex_rate_for_currencies with one retry after a transport failure,
\* reported as an error string
get_ex_rate_for_currencies_retry(s, convert_to, convert_from, resp) ==
    LET g == requests_get(s.url \o s.token \o "/pair/" \o convert_from
                          \o "/" \o convert_to, resp)
        result == g.result
    IN  IF g.raised
        THEN Effect(s, g.sent \o g.sent, 0,
                    Return(Str("Request error with status code: 0")))
        ELSE IF result.status_code = 200
        THEN LET j == result_json(result)
                 f == getitem(j.value, "conversion_rate")
             IN  IF j.kind = "raise" THEN Effect(s, g.sent, 1, j)
                 ELSE IF f.kind = "raise" THEN Effect(s, g.sent, 1, f)
                 ELSE Effect(s, g.sent, 1, Return(f.value))
        ELSE Effect(s, g.sent, 0,
                    Return(Str("Request error with status code: "
                               \o ToString(result.status_code))))

get_ex_rate_for_currencies(s, convert_to, convert_from, resp) ==
    LET g == requests_get(s.url \o s.token \o "/pair/" \o convert_from
                          \o "/" \o convert_to, resp)
        result == g.result
    IN  IF g.raised THEN Effect(s, g.sent, 0, Raise("ConnectionError"))
        ELSE IF result.status_code = 200
        THEN LET j == result_json(result)
                 f == getitem(j.value, "conversion_rate")
             IN  IF j.kind = "raise" THEN Effect(s, g.sent, 1, j)
                 ELSE IF f.kind = "raise" THEN Effect(s, g.sent, 1, f)
                 ELSE Effect(s, g.sent, 1, Return(f.value))
        ELSE Effect(s, g.sent, 0,
                    Return(Str("Request error with status code: "
                               \o ToString(result.status_code))))

\* exchange_from_to returning the rate field instead of the result field
exchange_from_to_rate(s, convert_from, convert_to, amount, resp) ==
    LET g == requests_get(s.url \o s.token \o "/pair/" \o convert_from
                          \o "/" \o convert_to \o "/" \o float_repr(amount),
                          resp)
        result == g.result
    IN  IF g.raised THEN Effect(s, g.sent, 0, Raise("ConnectionError"))
        ELSE IF result.status_code = 200
        THEN LET j == result_json(result)
                 f == getitem(j.value, "conversion_rate")
             IN  IF j.kind = "raise" THEN Effect(s, g.sent, 1, j)
                 ELSE IF f.kind = "raise" THEN Effect(s, g.sent, 1, f)
                 ELSE Effect(s, g.sent, 1, Return(f.value))
        ELSE Effect(s, g.sent, 0,
                    Return(Str("Request error with status code: "
                               \o ToString(result.status_code))))

\* exchange_from_to building its URL in the url attribute
exchange_from_to_inplace(s, convert_from, convert_to, amount, resp) ==
    LET built == s.url \o s.token \o "/pair/" \o convert_from
                 \o "/" \o convert_to \o "/" \o float_repr(amount)
        g == requests_get(built, resp)
        result == g.result
        after == [s EXCEPT !.url = built]
    IN  IF g.raised THEN Effect(after, g.sent, 0, Raise("ConnectionError"))
        ELSE IF result.status_code = 200
        THEN LET j == result_json(result)
                 f == getitem(j.value, "conversion_result")
             IN  IF j.kind = "raise" THEN Effect(after, g.sent, 1, j)
                 ELSE IF f.kind = "raise" THEN Effect(after, g.sent, 1, f)
                 ELSE Effect(after, g.sent, 1, Return(f.value))
        ELSE Effect(after, g.sent, 0,
                    Return(Str("Request error with status code: "
                               \o ToString(result.status_code))))

exchange_from_to(s, convert_from, convert_to, amount, resp) ==
    LET g == requests_get(s.url \o s.token \o "/pair/" \o convert_from
                          \o "/" \o convert_to \o "/" \o float_repr(amount),
                          resp)
        result == g.result
    IN  IF g.raised THEN Effect(s, g.sent, 0, Raise("ConnectionError"))
        ELSE IF result.status_code = 200
        THEN LET j == result_json(result)
                 f == getitem(j.value, "conversion_result")
             IN  IF j.kind = "raise" THEN Effect(s, g.sent, 1, j)
                 ELSE IF f.kind = "raise" THEN Effect(s, g.sent, 1, f)
                 ELSE Effect(s, g.sent, 1, Return(f.value))
        ELSE Effect(s, g.sent, 0,
                    Return(Str("Request error with status code: "
                               \o ToString(result.status_code))))

\* get_ex_rates_at_specific_date testing the status for truth, not for 200
get_ex_rates_at_specific_date_truthy(s, currency, year, month, day, resp) ==
    LET g == requests_get(s.url \o s.token \o "/history/" \o currency
                          \o "/" \o ToString(year) \o "/" \o ToString(month)
                          \o "/" \o ToString(day), resp)
        result == g.result
    IN  IF g.raised THEN Effect(s, g.sent, 0, Raise("ConnectionError"))
        ELSE IF result.status_code # 0
        THEN LET j == result_json(result)
                 f == getitem(j.value, "conversion_rates")
             IN  IF j.kind = "raise" THEN Effect(s, g.sent, 1, j)
                 ELSE IF f.kind = "raise" THEN Effect(s, g.sent, 1, f)
                 ELSE Effect(s, g.sent, 1, Return(Str(json_dumps(f.value))))
        ELSE Effect(s, g.sent, 0,
                    Return(Str("Request error with status code: "
                               \o ToString(result.status_code))))

get_ex_rates_at_specific_date(s, currency, year, month, day, resp) ==
    LET g == requests_get(s.url \o s.token \o "/history/" \o currency
                          \o "/" \o ToString(year) \o "/" \o ToString(month)
                          \o "/" \o ToString(day), resp)
        result == g.result
    IN  IF g.raised THEN Effect(s, g.sent, 0, Raise("ConnectionError"))
        ELSE IF result.status_code = 200
        THEN LET j == result_json(result)
                 f == getitem(j.value, "conversion_rates")
             IN  IF j.kind = "raise" THEN Effect(s, g.sent, 1, j)
                 ELSE IF f.kind = "raise" THEN Effect(s, g.sent, 1, f)
                 ELSE Effect(s, g.sent, 1, Return(Str(json_dumps(f.value))))
        ELSE Effect(s, g.sent, 0,
                    Return(Str("Request error with status code: "
                               \o ToString(result.status_code))))

-----------------------------------------------------------------------------
(* Text typed at a prompt: a sequence of one-character strings *)

DigitChars == {"0", "1", "2", "3", "4", "5", "6", "7", "8", "9"}
DigitVal(c) == CHOOSE d \in 0..9 : ToString(d) = c

RECURSIVE lstrip(_)
lstrip(t) == IF t # <<>> /\ Head(t) = " " THEN lstrip(Tail(t)) ELSE t

RECURSIVE rstrip(_)
rstrip(t) ==
    IF t # <<>> /\ t[Len(t)] = " " THEN rstrip(SubSeq(t, 1, Len(t) - 1))
    ELSE t

strip(t) == rstrip(lstrip(t))

RECURSIVE digits_value(_, _)
digits_value(t, acc) ==
    IF t = <<>> THEN acc
    ELSE digits_value(Tail(t), acc * 10 + DigitVal(Head(t)))

AllDigits(t) == \A i \in 1..Len(t) : t[i] \in DigitChars

\* int(text) over the characters digits, sign, space and anything else:
\* surrounding whitespace is dropped, one sign is allowed, at least one
\* digit must follow and nothing else may.
py_int(text) ==
    LET s == strip(text)
        signed == s # <<>> /\ Head(s) \in {"+", "-"}
        body == IF signed THEN Tail(s) ELSE s
        v == digits_value(body, 0)
    IN  IF body # <<>> /\ AllDigits(body)
        THEN [ok |-> TRUE, v |-> IF signed /\ Head(s) = "-" THEN -v ELSE v]
        ELSE [ok |-> FALSE, v |-> 0]

\* text.split(sep): the pieces between the occurrences of sep
RECURSIVE split_from(_, _, _, _)
split_from(t, sep, cur, acc) ==
    IF t = <<>> THEN Append(acc, cur)
    ELSE IF Head(t) = sep THEN split_from(Tail(t), sep, <<>>, Append(acc, cur))
    ELSE split_from(Tail(t), sep, Append(cur, Head(t)), acc)

split(t, sep) == split_from(t, sep, <<>>, <<>>)

\* float(text) giving 0.0 for a text that is no number
py_float_lenient(text) ==
    LET s == strip(text)
        parts == split(s, ".")
        whole == parts[1]
        frac == IF Len(parts) = 2 THEN parts[2] ELSE <<>>
        scaled == IF Len(frac) = 1 THEN 10 * digits_value(frac, 0)
                  ELSE IF Len(frac) = 2 THEN digits_value(frac, 0) ELSE 0
    IN  IF /\ Len(parts) <= 2
           /\ AllDigits(whole) /\ AllDigits(frac)
           /\ Len(whole) + Len(frac) > 0
           /\ Len(frac) <= 2
        THEN [ok |-> TRUE, v |-> 100 * digits_value(whole, 0) + scaled]
        ELSE [ok |-> TRUE, v |-> 0]

\* float(text) over the same characters and ".": digits with at most one
\* point and a digit on at least one side of it; the value in hundredths
\* (texts with more than two fractional digits are outside the inputs).
py_float(text) ==
    LET s == strip(text)
        signed == s # <<>> /\ Head(s) \in {"+", "-"}
        body == IF signed THEN Tail(s) ELSE s
        parts == split(body, ".")
        whole == parts[1]
        frac == IF Len(parts) = 2 THEN parts[2] ELSE <<>>
        scaled == IF Len(frac) = 0 THEN 0
                  ELSE IF Len(frac) = 1 THEN 10 * digits_value(frac, 0)
                  ELSE digits_value(frac, 0)
        v == 100 * digits_value(whole, 0) + scaled
    IN  IF /\ Len(parts) <= 2
           /\ AllDigits(whole) /\ AllDigits(frac)
           /\ Len(whole) + Len(frac) > 0
           /\ Len(frac) <= 2
        THEN [ok |-> TRUE, v |-> IF signed /\ Head(s) = "-" THEN -v ELSE v]
        ELSE [ok |-> FALSE, v |-> 0]

SelectorInputs ==
    { <<"1">>, <<"2">>, <<"3">>, <<"4">>, <<"5">>, <<"0">>, <<"-", "1">>,
      <<"1", "2">>, <<" ", "2">>, <<"x">>, <<>>, <<"1", ".", "0">> }

AmountInputs ==
    { <<"1", "0", "0">>, <<"9", "1", ".", "4">>, <<"1", "0", "0", ".", "0">>,
      <<"a", "b", "c">>, <<>>, <<"1", ".", "2", ".", "3">> }

DateInputs ==
    { <<"2", "0", "2", "3", "-", "5", "-", "1", "7">>,
      <<"2", "0", "2", "3", "-", "0", "5", "-", "1", "7">>,
      <<"2", "0", "2", "3", "/", "5", "/", "1", "7">>,
      <<"2", "0", "2", "3", "-", "5">>,
      <<"2", "0", "2", "3", "-", "5", "-", "1", "7", "-", "1">>,
      <<"2", "0", "2", "3", "-", "x", "-", "1", "7">>,
      <<"2", "0", "2", "3", "-", "-", "1", "7">>,
      <<>> }

-----------------------------------------------------------------------------
(* State *)

NoCall == [op |-> "", args |-> <<>>, resp |-> Undelivered, sent |-> <<>>,
           reads |-> 0, outcome |-> Return(None)]

Init ==
    /\ mode \in {"lib", "main"}
    /\ arg_token \in (IF mode = "main" THEN {TOKEN_KEY} ELSE Tokens)
    /\ self = __init__(arg_token)
    /\ last = NoCall
    /\ first = NoCall
    /\ ncalls = 0
    /\ nsent = 0
    /\ pc = (IF mode = "main" THEN "menu" ELSE "lib")
    /\ user_input = 0
    /\ answers = <<>>
    /\ trace = <<>>
    /\ fault = ""

\* One method call: what it leaves in the client and on the wire
Call(op, args, resp, eff) ==
    /\ self' = eff.self
    /\ last' = [op |-> op, args |-> args, resp |-> resp, sent |-> eff.sent,
                reads |-> eff.reads, outcome |-> eff.outcome]
    /\ first' = (IF ncalls = 0 THEN last' ELSE first)
    /\ ncalls' = ncalls + 1
    /\ nsent' = nsent + Len(eff.sent)

-----------------------------------------------------------------------------
(* The methods called on a client by code that imports the module *)

GetExRates ==
    /\ mode = "lib" /\ ncalls < MaxCalls
    /\ \E currency \in Currencies, resp \in Responses :
          Call("get_ex_rates", <<currency>>, resp,
               get_ex_rates(self, currency, resp))
    /\ UNCHANGED <<mode, arg_token, pc, user_input, answers, trace, fault>>

GetExRateForCurrencies ==
    /\ mode = "lib" /\ ncalls < MaxCalls
    /\ \E a \in PairArgs, resp \in Responses :
          Call("get_ex_rate_for_currencies", a, resp,
               get_ex_rate_for_currencies(self, a[1], a[2], resp))
    /\ UNCHANGED <<mode, arg_token, pc, user_input, answers, trace, fault>>

ExchangeFromTo ==
    /\ mode = "lib" /\ ncalls < MaxCalls
    /\ \E a \in ExchangeArgs, resp \in Responses :
          Call("exchange_from_to", a, resp,
               exchange_from_to(self, a[1], a[2], a[3], resp))
    /\ UNCHANGED <<mode, arg_token, pc, user_input, answers, trace, fault>>

GetExRatesAtSpecificDate ==
    /\ mode = "lib" /\ ncalls < MaxCalls
    /\ \E a \in HistoryArgs, resp \in Responses :
          Call("get_ex_rates_at_specific_date", a, resp,
               get_ex_rates_at_specific_date(self, a[1], a[2], a[3], a[4],
                                             resp))
    /\ UNCHANGED <<mode, arg_token, pc, user_input, answers, trace, fault>>

-----------------------------------------------------------------------------
(* main() *)

MENU == "What do you want to know? Please enter the number of your option"
ASK_CURRENCY == "What currency?"
ASK_FROM == "What currency rate do you want to know?"
ASK_TO == "Relative to what currency?"
ASK_AMOUNT == "What amount?"
ASK_DATE == "What date? Please enter your date in format YYYY-MM-DD"

\* match statement whose last numbered case also takes larger selectors
match_case_clamped(selector) ==
    IF selector < 1 THEN 0 ELSE IF selector > 4 THEN 4 ELSE selector

\* The case of the match statement that a selector takes
match_case(selector) == IF selector \in 1..4 THEN selector ELSE 0

\* The prompts of a case, in the order the case asks them
Prompts(case) ==
    CASE case = 1 -> <<ASK_CURRENCY>>
      [] case = 2 -> <<ASK_FROM, ASK_TO>>
      [] case = 3 -> <<ASK_FROM, ASK_TO, ASK_AMOUNT>>
      [] case = 4 -> <<ASK_FROM, ASK_DATE>>
      [] OTHER -> <<>>

InputsFor(prompt) ==
    CASE prompt = ASK_AMOUNT -> AmountInputs
      [] prompt = ASK_DATE -> DateInputs
      [] OTHER -> Currencies

Shown(prompt) == <<"input", prompt>>
Printed(text) == <<"print", text>>
Called(op) == <<"call", op>>

\* An exception leaves main(): nothing more runs
Die(site) ==
    /\ pc' = "exit"
    /\ fault' = site
    /\ UNCHANGED <<mode, arg_token, self, last, first, ncalls, nsent,
                   user_input, answers, trace>>

\* user_input = int(input(menu)), and the dispatch of the match statement
ReadSelector ==
    /\ pc = "menu"
    /\ \E text \in SelectorInputs :
          LET parsed == py_int(text) IN
          /\ pc' = (IF parsed.ok /\ match_case(parsed.v) # 0 THEN "prompt"
                    ELSE "exit")
          /\ fault' = (IF parsed.ok THEN "" ELSE "selector")
          /\ user_input' = (IF parsed.ok THEN parsed.v ELSE user_input)
          /\ trace' = (IF parsed.ok /\ match_case(parsed.v) = 0
                       THEN trace \o <<Shown(MENU), Printed("Invalid input")>>
                       ELSE Append(trace, Shown(MENU)))
    /\ UNCHANGED <<mode, arg_token, self, last, first, ncalls, nsent,
                   answers>>

\* The next input() of the selected case
ReadAnswer ==
    /\ pc = "prompt"
    /\ LET asked == Prompts(match_case(user_input))
           k == Len(answers) + 1
       IN  /\ k <= Len(asked)
           /\ \E text \in InputsFor(asked[k]) : answers' = Append(answers, text)
           /\ trace' = Append(trace, Shown(asked[k]))
           /\ pc' = (IF k = Len(asked) THEN "call" ELSE "prompt")
    /\ UNCHANGED <<mode, arg_token, self, last, first, ncalls, nsent,
                   user_input, fault>>

\* the call and the print, followed by a return to the menu
CallAndShowLoop(op, args, resp, eff) ==
    /\ Call(op, args, resp, eff)
    /\ trace' = (IF eff.outcome.kind = "return"
                 THEN trace \o <<Called(op), Printed(py_str(eff.outcome.value))>>
                 ELSE Append(trace, Called(op)))
    /\ fault' = (IF eff.outcome.kind = "return" THEN "" ELSE "call")
    /\ pc' = (IF eff.outcome.kind = "return" THEN "menu" ELSE "exit")
    /\ answers' = <<>>
    /\ UNCHANGED <<mode, arg_token, user_input>>

\* print(exchanger.method(...)): the call, then the print of what it returned
CallAndShow(op, args, resp, eff) ==
    /\ Call(op, args, resp, eff)
    /\ trace' = (IF eff.outcome.kind = "return"
                 THEN trace \o <<Called(op), Printed(py_str(eff.outcome.value))>>
                 ELSE Append(trace, Called(op)))
    /\ fault' = (IF eff.outcome.kind = "return" THEN "" ELSE "call")
    /\ pc' = "exit"
    /\ UNCHANGED <<mode, arg_token, user_input, answers>>

Case1 ==
    /\ pc = "call" /\ match_case(user_input) = 1
    /\ \E resp \in Responses :
          CallAndShow("get_ex_rates", <<answers[1]>>, resp,
                      get_ex_rates(self, answers[1], resp))

Case2 ==
    /\ pc = "call" /\ match_case(user_input) = 2
    /\ \E resp \in Responses :
          LET currency_from == answers[1]
              currency_to == answers[2]
          IN  CallAndShow("get_ex_rate_for_currencies",
                          <<currency_from, currency_to>>, resp,
                          get_ex_rate_for_currencies(self, currency_from,
                                                     currency_to, resp))

Case3 ==
    /\ pc = "call" /\ match_case(user_input) = 3
    /\ LET currency_from == answers[1]
           currency_to == answers[2]
           amount == py_float(answers[3])
       IN  IF ~amount.ok THEN Die("amount")
           ELSE \E resp \in Responses :
                   CallAndShow("exchange_from_to",
                               <<currency_from, currency_to, amount.v>>, resp,
                               exchange_from_to(self, currency_from,
                                                currency_to, amount.v, resp))

Case4 ==
    /\ pc = "call" /\ match_case(user_input) = 4
    /\ LET currency == answers[1]
           parts == split(answers[2], "-")
           year == py_int(parts[1])
           month == py_int(parts[2])
           day == py_int(parts[3])
       IN  IF Len(parts) # 3 THEN Die("date")
           ELSE IF ~(year.ok /\ month.ok /\ day.ok) THEN Die("date")
           ELSE \E resp \in Responses :
                   CallAndShow("get_ex_rates_at_specific_date",
                               <<currency, year.v, month.v, day.v>>, resp,
                               get_ex_rates_at_specific_date(
                                   self, currency, year.v, month.v, day.v,
                                   resp))

Next ==
    \/ GetExRates
    \/ GetExRateForCurrencies
    \/ ExchangeFromTo
    \/ GetExRatesAtSpecificDate
    \/ ReadSelector
    \/ ReadAnswer
    \/ Case1
    \/ Case2
    \/ Case3
    \/ Case4

Spec == Init /\ [][Next]_vars

-----------------------------------------------------------------------------
(* Properties *)

\* C1: for every method and every delivered response whose status S is not
\* 200, the method returns exactly "Request error with status code: S",
\* whatever the body holds, and result.json() is not evaluated.
C1_ErrorStringOnNon200 ==
    (last.op # "" /\ last.resp.transport_ok /\ last.resp.status_code # 200)
    => /\ last.outcome = Return(Str("Request error with status code: "
                                    \o ToString(last.resp.status_code)))
       /\ last.reads = 0

\* C1 witness: the historical-rates method answered 404 with a JSON body
\* that carries conversion_rates returned the 404 error string.
C1_Witness ==
    /\ last.op = "get_ex_rates_at_specific_date"
    /\ last.resp.status_code = 404
    /\ last.resp.is_json
    /\ getitem(last.resp.body, "conversion_rates").kind = "return"
    /\ last.outcome.value.s = "Request error with status code: 404"

\* C2: the pair-rate method called with (source, target) in that order
\* requests {url}{token}/pair/{source}/{target}.
C2_PairPathInCallOrder ==
    (last.op = "get_ex_rate_for_currencies")
    => last.sent = <<self.url \o self.token \o "/pair/" \o last.args[1]
                     \o "/" \o last.args[2]>>

\* C3: the HTTP status alone decides the outcome: status 200 gives a
\* returned success value whatever the body (never the error string, never
\* an exception), every other status gives the returned error string.
C3_StatusAloneDecides ==
    (last.op # "" /\ last.resp.transport_ok)
    => LET text == Str("Request error with status code: "
                       \o ToString(last.resp.status_code))
       IN  IF last.resp.status_code = 200
           THEN last.outcome.kind = "return" /\ last.outcome.value # text
           ELSE last.outcome = Return(text)

\* C4: on status 200 with the expected field in the body, each method
\* returns exactly that field: the rates methods the indented JSON text of
\* conversion_rates, the pair method conversion_rate, the conversion method
\* conversion_result; nothing else of the body or of the arguments matters.
C4_ReturnsExpectedField ==
    LET rates == last.op \in {"get_ex_rates", "get_ex_rates_at_specific_date"}
        key == IF rates THEN "conversion_rates"
               ELSE IF last.op = "get_ex_rate_for_currencies"
               THEN "conversion_rate" ELSE "conversion_result"
        body == last.resp.body
        at == {i \in 1..Len(body.items) : body.items[i].k = key}
    IN  (/\ last.op # "" /\ last.resp.transport_ok
         /\ last.resp.status_code = 200
         /\ last.resp.is_json /\ body.t = "dict" /\ at # {})
        => \E i \in at :
              last.outcome = Return(IF rates THEN Str(json_dumps(body.items[i].v))
                                    ELSE body.items[i].v)

\* C4 witness: the conversion of 100.0 answered 200 with conversion_result
\* 91.4 among other fields returned the float 91.4.
C4_Witness ==
    /\ last.op = "exchange_from_to"
    /\ last.args[3] = 10000
    /\ last.resp.status_code = 200
    /\ getitem(last.resp.body, "conversion_rate").kind = "return"
    /\ last.outcome = Return(PyFloat(9140))

\* C5: every method call hands exactly one request to the transport, in
\* every outcome, and a transport failure leaves the method as an
\* exception: it is not retried and not turned into a return value.
C5_OneRequestPerCall ==
    /\ nsent = ncalls
    /\ last.op # "" => Len(last.sent) = 1
    /\ (last.op # "" /\ ~last.resp.transport_ok) => last.outcome.kind = "raise"

\* C5 witness: a second call met a transport failure after a first call
\* that was answered.
C5_Witness ==
    /\ ncalls = 2 /\ nsent = 2
    /\ first.resp.transport_ok
    /\ ~last.resp.transport_ok
    /\ last.outcome = Raise("ConnectionError")

\* C6: in main(), an integer selector outside {1,2,3,4} ends the run
\* normally with "Invalid input" as its only printed line, with no further
\* prompt, no method call and no request.
C6_InvalidSelector ==
    (mode = "main" /\ pc # "menu" /\ fault # "selector"
     /\ user_input \notin 1..4)
    => /\ pc = "exit" /\ fault = ""
       /\ trace = <<Shown(MENU), Printed("Invalid input")>>
       /\ answers = <<>>
       /\ ncalls = 0 /\ nsent = 0

\* C6 witness: selector 5 was read and the run ended after "Invalid input".
C6_Witness ==
    /\ pc = "exit" /\ user_input = 5
    /\ trace = <<Shown(MENU), Printed("Invalid input")>>

\* C7: in main(), a run with a selector in {1,2,3,4}, well-formed arguments
\* and a call that returned goes: menu, the prompts of the option in order,
\* one call of the matching method, one print of what it returned, end.
\* Before the end nothing was called or printed; the menu is shown once.
C7_SingleStepRun ==
    LET asked == Prompts(user_input)
        method == CASE user_input = 1 -> "get_ex_rates"
                    [] user_input = 2 -> "get_ex_rate_for_currencies"
                    [] user_input = 3 -> "exchange_from_to"
                    [] OTHER -> "get_ex_rates_at_specific_date"
    IN  /\ (mode = "main" /\ pc = "exit" /\ fault = "" /\ user_input \in 1..4)
           => /\ ncalls = 1 /\ last.op = method
              /\ last.outcome.kind = "return"
              /\ trace = <<Shown(MENU)>>
                         \o [i \in 1..Len(asked) |-> Shown(asked[i])]
                         \o <<Called(method),
                              Printed(py_str(last.outcome.value))>>
        /\ (mode = "main" /\ pc # "exit")
           => /\ ncalls = 0
              /\ \A i \in 1..Len(trace) : trace[i][1] = "input"
              /\ \A i \in 2..Len(trace) : trace[i][2] # MENU

\* C7 witness: option 3 with amount "91.4" ended after printing the error
\* string of a 404 answer.
C7_Witness ==
    /\ mode = "main" /\ pc = "exit" /\ user_input = 3 /\ fault = ""
    /\ last.args[3] = 9140
    /\ trace[Len(trace)] = Printed("Request error with status code: 404")

\* C8: after any sequence of method calls the token is the one given to the
\* constructor, the base URL is the configured one, and the client has no
\* other attribute.
C8_ClientNeverChanges == self = [token |-> arg_token, url |-> API_URL]

\* C8 witness: a client built with another token made three calls, answered
\* 200 and not 200.
C8_Witness ==
    /\ mode = "lib" /\ arg_token = "OTHER" /\ ncalls = 3
    /\ first.resp.status_code = 404 /\ last.resp.status_code = 200

C10_ParseFailureBeforeCall ==
    /\ fault \in {"selector", "amount", "date"}
       => /\ pc = "exit" /\ ncalls = 0 /\ nsent = 0
          /\ \A i \in 1..Len(trace) : trace[i][1] = "input"
    /\ (pc = "exit" /\ user_input = 3 /\ Len(answers) = 3
        /\ answers[3] \in {<<"a", "b", "c">>, <<>>,
                           <<"1", ".", "2", ".", "3">>})
       => fault = "amount"
    /\ (pc = "exit" /\ user_input = 4 /\ Len(answers) = 2
        /\ answers[2] \in {<<"2", "0", "2", "3", "/", "5", "/", "1", "7">>,
                           <<"2", "0", "2", "3", "-", "5">>,
                           <<"2", "0", "2", "3", "-", "x", "-", "1", "7">>,
                           <<"2", "0", "2", "3", "-", "-", "1", "7">>})
       => fault = "date"

\* C10 witness: option 3 ended on the amount "abc" after its three prompts.
C10_Witness ==
    /\ pc = "exit" /\ fault = "amount" /\ user_input = 3
    /\ answers[3] = <<"a", "b", "c">>
    /\ Len(trace) = 4

====
